---- MODULE Spec2Model ----
(***************************************************************************)
(* legopython/lp_api.py: the AuthHandler credential lifecycle (environment *)
(* selection, disk cache of credentials, acquisition per AuthType) and the *)
(* send_http_call retry loop.                                              *)
(*                                                                         *)
(* Python values are tagged records [t, v]: t is the Python type, v the    *)
(* payload.  A str is a sequence of chunks, a dict a function from keys.   *)
(***************************************************************************)
EXTENDS Integers, Sequences, FiniteSets, TLC

VARIABLES
    auth_type,      \* AuthHandler._auth_type
    env_config,     \* AuthHandler._env_config (token_params are mutated in place)
    env_attr,       \* AuthHandler._env, or NoAttr when the attribute was never set
    credentials,    \* AuthHandler._credentials
    files,          \* the cache files under ~/.lp, by path
    now,            \* the clock read by int(time())
    saved,          \* history: per environment, what the handler last wrote to / removed from disk
    ret             \* history: the last operation, its inputs and its outcome

vars == <<auth_type, env_config, env_attr, credentials, files, now, saved, ret>>

-----------------------------------------------------------------------------
(* Bounds of the model *)

MaxTime == 2        \* the clock runs over 1..MaxTime
MaxAttempts == 3    \* http_attempts passed to send_http_call ranges over 0..MaxAttempts

-----------------------------------------------------------------------------
(* Python values *)

PyNone == [t |-> "None", v |-> 0]
PyInt(n) == [t |-> "int", v |-> n]
PyStr(s) == [t |-> "str", v |-> s]
PyDict(d) == [t |-> "dict", v |-> d]
EmptyDict == PyDict(<<>>)

\* d[k] = val on a dict
DictSet(d, k, val) ==
    PyDict([x \in (DOMAIN d.v) \cup {k} |-> IF x = k THEN val ELSE d.v[x]])

\* d.get(k, default)
DictGet(d, k, default) == IF k \in DOMAIN d.v THEN d.v[k] ELSE default

\* bool(x) as used by `and`
Truthy(x) ==
    CASE x.t = "None" -> FALSE
      [] x.t = "int" -> x.v # 0
      [] x.t = "str" -> Len(x.v) > 0
      [] x.t = "dict" -> DOMAIN x.v # {}
      [] OTHER -> TRUE

\* a requests.Response: the attempt that produced it and whether its status is 2xx
Response(attempt, ok) == [t |-> "Response", v |-> [attempt |-> attempt, ok |-> ok]]

\* the local variable `response` of send_http_call before any assignment
Unbound == [t |-> "Unbound", v |-> 0]

\* base64.b64encode(bytes(s)).decode(): an injective re-coding of the chunks of s
b64encode(s) == <<"b64">> \o s

-----------------------------------------------------------------------------
(* json.dumps / json.loads on the values a credential record holds.  A JSON *)
(* text is a sequence of tokens [tok, val].                                 *)

Tok(kind, val) == [tok |-> kind, val |-> val]
Punct(kind) == Tok(kind, PyNone)
ScalarKinds == {"null", "number", "string"}

\* the token of a scalar value; anything else is not JSON serializable here
IsScalar(x) == x.t \in {"None", "int", "str"}
ScalarTok(x) ==
    CASE x.t = "None" -> Tok("null", PyNone)
      [] x.t = "int" -> Tok("number", x)
      [] x.t = "str" -> Tok("string", x)

\* the members of a dict, "key": value separated by commas (a dict key is one chunk)
RECURSIVE DumpMembers(_, _)
DumpMembers(d, keys) ==
    IF keys = {} THEN <<>>
    ELSE LET k == CHOOSE x \in keys : TRUE
             rest == keys \ {k}
         IN  <<Tok("string", PyStr(<<k>>)), Punct(":"), ScalarTok(d.v[k])>>
             \o (IF rest = {} THEN <<>> ELSE <<Punct(",")>>)
             \o DumpMembers(d, rest)

\* json.dumps(x): [ok, text]; ok = FALSE is the TypeError for a value that is
\* not serializable (a Response object)
json_dumps(x) ==
    IF IsScalar(x) THEN [ok |-> TRUE, text |-> <<ScalarTok(x)>>]
    ELSE IF x.t = "dict" /\ \A k \in DOMAIN x.v : IsScalar(x.v[k])
    THEN [ok |-> TRUE,
          text |-> <<Punct("{")>> \o DumpMembers(x, DOMAIN x.v) \o <<Punct("}")>>]
    ELSE [ok |-> FALSE, text |-> <<>>]

ParseError == [ok |-> FALSE, val |-> PyNone]

RECURSIVE ParseMembers(_, _)
ParseMembers(toks, acc) ==
    IF Len(toks) < 3 THEN ParseError
    ELSE IF /\ toks[1].tok = "string"
            /\ Len(toks[1].val.v) = 1
            /\ toks[2].tok = ":"
            /\ toks[3].tok \in ScalarKinds
    THEN LET acc2 == DictSet(acc, toks[1].val.v[1], toks[3].val)
         IN  IF Len(toks) = 3 THEN [ok |-> TRUE, val |-> acc2]
             ELSE IF toks[4].tok = ","
             THEN ParseMembers(SubSeq(toks, 5, Len(toks)), acc2)
             ELSE ParseError
    ELSE ParseError

\* json.loads(text): [ok, val]; ok = FALSE is json.JSONDecodeError
json_loads(text) ==
    IF Len(text) = 1 /\ text[1].tok \in ScalarKinds
    THEN [ok |-> TRUE, val |-> text[1].val]
    ELSE IF Len(text) >= 2 /\ text[1].tok = "{" /\ text[Len(text)].tok = "}"
    THEN IF Len(text) = 2 THEN [ok |-> TRUE, val |-> EmptyDict]
         ELSE ParseMembers(SubSeq(text, 2, Len(text) - 1), EmptyDict)
    ELSE ParseError

-----------------------------------------------------------------------------
(* The handler's construction arguments and the cache files *)

Name == "example_api"
EnvKeys == {"prod", "test"}         \* env_config.keys()
UnknownEnvs == {"staging"}
NoAttr == "<no _env attribute>"

AuthTypes == {"BASIC", "JWT_BEARER", "OAUTH2"}

\* a token_params value that is a zero-argument function
Resolver == [t |-> "function", v |-> 0]

DefaultAttempts == 1    \* send_http_call's default http_attempts

\* the env_config handed to the constructor: token_params leave http_attempts
\* to its default; prod has a resolver for data.signature, test a literal
InitialEnvConfig ==
    [e \in EnvKeys |->
        [api_url |-> <<"https://", e, ".example/api">>,
         token_params |->
            [url |-> <<"https://", e, ".example/token">>,
             http_attempts |-> DefaultAttempts,
             data |-> [signature |-> IF e = "prod" THEN Resolver ELSE PyStr(<<"literal">>)]]]]

\* a cache path that leaves the environment out of the file name
CredPathByNameOnly(name, env) == <<".lp/", name, ".json">>

\* Path(home_folder) / f"{name}-{env}.json"
CredPath(name, env) == <<".lp/", name, "-", env, ".json">>
Paths == {CredPath(Name, e) : e \in EnvKeys}

NoFile == [exists |-> FALSE, text |-> <<>>]
FileOf(text) == [exists |-> TRUE, text |-> text]

\* what a cache file may hold when the handler is constructed: nothing, an
\* unparsable text, or a record cached by an earlier process
CachedRecord(expiry) ==
    PyDict("received" :> PyInt(0) @@ "access_token" :> PyStr(<<"old">>)
           @@ "expiry" :> PyInt(expiry) @@ "auth_header" :> PyStr(<<"Bearer ", "old">>))
CachedBasic ==
    PyDict("received" :> PyInt(0) @@ "username" :> PyStr(<<"olduser">>)
           @@ "credstring" :> PyStr(b64encode(<<"olduser", ":", "oldpw">>))
           @@ "auth_header" :> PyStr(<<"Basic ">> \o b64encode(<<"olduser", ":", "oldpw">>)))
CorruptText == <<Punct("{"), Tok("string", PyStr(<<"received">>))>>
InitialFileContents(env) ==
    {NoFile, FileOf(json_dumps(CachedBasic).text)}
    \cup IF env = "prod"
         THEN {FileOf(CorruptText)}
              \cup {FileOf(json_dumps(CachedRecord(x)).text) : x \in 0..MaxTime}
         ELSE {}

\* history values of `saved`
Absent == [t |-> "absent", v |-> 0]       \* no file, by construction or after a clear
External == [t |-> "external", v |-> 0]   \* a file this handler did not write

-----------------------------------------------------------------------------
(* send_http_call: the retry loop *)

\* what one requests.request(...) / raise_for_status() can do
Outcomes == {"ConnectTimeout", "ReadTimeout", "HTTPError", "RequestException", "OK"}

\* the loop with `return response` after the try statement instead of in its
\* else clause: a response with a bad status is returned, not retried
RECURSIVE SendLoopReturnsBadStatus(_, _, _, _)
SendLoopReturnsBadStatus(http_attempts, outs, retry, response) ==
    IF retry >= http_attempts
    THEN [outcome |-> "return", value |-> PyNone, attempts |-> retry]
    ELSE LET o == outs[retry + 1] IN
         CASE o \in {"ConnectTimeout", "ReadTimeout"} ->
                SendLoopReturnsBadStatus(http_attempts, outs, retry + 1, response)
           [] o = "HTTPError" ->
                [outcome |-> "return", value |-> Response(retry, FALSE),
                 attempts |-> retry + 1]
           [] o = "RequestException" ->
                IF response = Unbound
                THEN [outcome |-> "UnboundLocalError", value |-> PyNone,
                      attempts |-> retry + 1]
                ELSE [outcome |-> "RequestException", value |-> response,
                      attempts |-> retry + 1]
           [] o = "OK" ->
                [outcome |-> "return", value |-> Response(retry, TRUE),
                 attempts |-> retry + 1]

\* the loop with its `return response` moved behind the loop: a success does
\* not end the attempts
RECURSIVE SendLoopReturnsAfterLoop(_, _, _, _)
SendLoopReturnsAfterLoop(http_attempts, outs, retry, response) ==
    IF retry >= http_attempts
    THEN [outcome |-> "return", value |-> IF response = Unbound THEN PyNone ELSE response,
          attempts |-> retry]
    ELSE LET o == outs[retry + 1] IN
         CASE o \in {"ConnectTimeout", "ReadTimeout"} ->
                SendLoopReturnsAfterLoop(http_attempts, outs, retry + 1, response)
           [] o = "HTTPError" ->
                SendLoopReturnsAfterLoop(http_attempts, outs, retry + 1,
                                         Response(retry, FALSE))
           [] o = "RequestException" ->
                IF response = Unbound
                THEN [outcome |-> "UnboundLocalError", value |-> PyNone,
                      attempts |-> retry + 1]
                ELSE [outcome |-> "RequestException", value |-> response,
                      attempts |-> retry + 1]
           [] o = "OK" ->
                SendLoopReturnsAfterLoop(http_attempts, outs, retry + 1,
                                         Response(retry, TRUE))

\* the loop `for retry in range(http_attempts)`, from iteration `retry` on, with
\* the local `response` as the earlier iterations left it.  Result: how the call
\* ends (outcome "return" or the exception raised), the value returned or the
\* response the raised error describes, and the attempts made.
RECURSIVE SendLoop(_, _, _, _)
SendLoop(http_attempts, outs, retry, response) ==
    IF retry >= http_attempts
    THEN \* the loop ends and the function body ends: an implicit `return None`
         [outcome |-> "return", value |-> PyNone, attempts |-> retry]
    ELSE LET o == outs[retry + 1] IN
         CASE o \in {"ConnectTimeout", "ReadTimeout"} ->
                \* requests.request raised: `response` keeps its earlier binding
                SendLoop(http_attempts, outs, retry + 1, response)
           [] o = "HTTPError" ->
                \* a response was received; raise_for_status() raised
                SendLoop(http_attempts, outs, retry + 1, Response(retry, FALSE))
           [] o = "RequestException" ->
                \* the handler formats response.url etc.: with no response ever
                \* bound that read raises UnboundLocalError instead
                IF response = Unbound
                THEN [outcome |-> "UnboundLocalError", value |-> PyNone,
                      attempts |-> retry + 1]
                ELSE [outcome |-> "RequestException", value |-> response,
                      attempts |-> retry + 1]
           [] o = "OK" ->
                [outcome |-> "return", value |-> Response(retry, TRUE),
                 attempts |-> retry + 1]

send_http_call(http_attempts, outs) == SendLoop(http_attempts, outs, 0, Unbound)

NoHttp == [n |-> 0, outs |-> <<>>, result |-> [outcome |-> "none", value |-> PyNone, attempts |-> 0]]

-----------------------------------------------------------------------------
(* The history record of the last operation *)

NoCall == [invoked |-> FALSE, api_url |-> <<>>, headers |-> <<>>, params |-> PyNone]

RetBase ==
    [op |-> "none",
     arg |-> PyNone,            \* the operation's argument
     outcome |-> "return",      \* "return", or the exception that propagated
     value |-> PyNone,          \* the value returned
     at |-> 0,                  \* the clock reading the operation used
     pre |-> PyNone,            \* the in-memory credential when it was called
     pre_file |-> NoFile,       \* the cache file of the environment when it was called
     loads |-> 0,               \* calls of _get_cached_credentials it made
     loaded |-> PyNone,         \* what that call returned
     load_from |-> Absent,      \* `saved` of the environment when it loaded
     checked |-> PyNone,        \* the credential whose expiry was examined
     acquired |-> 0,            \* acquisitions it started
     prompt |-> PyNone,         \* what the user typed at the prompt, if prompted
     sent |-> PyNone,           \* data.signature sent with the token request
     http |-> NoHttp,           \* the send_http_call it made
     call |-> NoCall]           \* the call manage_auth's wrapper made

-----------------------------------------------------------------------------
(* AuthHandler: the steps of its methods, as functions of the state they read *)

Raise(exc) == [outcome |-> exc, value |-> PyNone]
Return(val) == [outcome |-> "return", value |-> val]

\* the env setter with the credential reset inside the else branch: an unknown
\* name leaves the credential in place
env_setter_resets_on_change(config, attr, creds, env) ==
    [env_attr |-> IF env \notin DOMAIN config THEN attr ELSE env,
     credentials |-> IF env \notin DOMAIN config THEN creds ELSE PyNone]

\* the env property setter: the new _env and _credentials
env_setter(config, attr, creds, env) ==
    [env_attr |-> IF env \notin DOMAIN config THEN attr ELSE env,
     credentials |-> PyNone]

\* the env property getter
env_getter(attr) ==
    IF attr = NoAttr THEN Raise("AttributeError") ELSE Return(PyStr(<<attr>>))

\* _get_cached_credentials
get_cached_credentials(attr, fs) ==
    IF attr = NoAttr THEN Raise("AttributeError")
    ELSE LET credfile == fs[CredPath(Name, attr)] IN
         IF ~credfile.exists THEN Return(PyNone)
         ELSE LET parsed == json_loads(credfile.text) IN
              IF parsed.ok THEN Return(parsed.val) ELSE Raise("JSONDecodeError")

\* _cache_credentials: the outcome and the files afterwards
cache_credentials(attr, creds, fs) ==
    IF attr = NoAttr THEN [outcome |-> "AttributeError", files |-> fs]
    ELSE LET dumped == json_dumps(creds) IN
         IF ~dumped.ok THEN [outcome |-> "TypeError", files |-> fs]
         ELSE [outcome |-> "return",
               files |-> [fs EXCEPT ![CredPath(Name, attr)] = FileOf(dumped.text)]]

\* the test of get_valid_credentials that decides on a new acquisition:
\* "yes", "no", or "AttributeError" when the credential is no dict
\* the test of line 209 with a missing expiry read as its default
needs_new_missing_expiry_is_zero(creds, clock) ==
    IF creds.t = "None" THEN "yes"
    ELSE IF creds.t # "dict" THEN "AttributeError"
    ELSE IF DictGet(creds, "expiry", PyInt(0)).v <= clock
         THEN "yes" ELSE "no"

needs_new(creds, clock) ==
    IF creds.t = "None" THEN "yes"
    ELSE IF creds.t # "dict" THEN "AttributeError"
    ELSE IF /\ Truthy(DictGet(creds, "expiry", PyNone))
            /\ DictGet(creds, "expiry", PyInt(0)).v <= clock
         THEN "yes" ELSE "no"

\* the user at the prompt of _get_basic_auth_credentials
Users == {"alice"}
Passwords == {"pw"}
Abort == [t |-> "abort", v |-> <<>>]
Typed(u, p) == [t |-> "typed", v |-> <<u, p>>]
PromptInputs == {Abort} \cup {Typed(u, p) : u \in Users, p \in Passwords}

\* _get_basic_auth_credentials followed by the two assignments that use it
basic_credentials(creds, prompt) ==
    LET username == prompt.v[1]
        credstring == b64encode(<<username, ":", prompt.v[2]>>)
        c1 == DictSet(creds, "username", PyStr(<<username>>))
        c2 == DictSet(c1, "credstring", PyStr(credstring))
    IN  DictSet(c2, "auth_header", PyStr(<<"Basic ">> \o credstring))

\* what a resolver function returns when called at `clock`
ResolverValue(clock) == PyInt(clock)

\* _request_token / _request_oauth2_token: token_params with its callables
\* replaced in place by their results, then send_http_call(**token_params)
request_token(attr, config, clock, outs) ==
    LET params == config[attr].token_params
        resolved == IF params.data.signature.t = "function"
                    THEN [params EXCEPT !.data.signature = ResolverValue(clock)]
                    ELSE params
    IN  [env_config |-> [config EXCEPT ![attr].token_params = resolved],
         sent |-> resolved.data.signature,
         n |-> resolved.http_attempts,
         result |-> send_http_call(resolved.http_attempts, outs)]

\* the two assignments after a token request: they use the value as a dict
token_credentials(creds, clock) ==
    IF creds.t # "dict" THEN [outcome |-> "AttributeError", credentials |-> creds]
    ELSE LET c1 == DictSet(creds, "expiry",
                     PyInt(clock + DictGet(creds, "expires_in", PyInt(3600)).v))
         IN  [outcome |-> "ok",
              credentials |-> DictSet(c1, "auth_header",
                  PyStr(<<"Bearer ">> \o DictGet(c1, "access_token", PyStr(<<"None">>)).v))]

\* the acquisition branch of get_valid_credentials
Acquired(outcome, creds, config, prompt, req) ==
    [outcome |-> outcome, credentials |-> creds, env_config |-> config,
     prompt |-> prompt, sent |-> req.sent,
     http |-> [n |-> req.n, outs |-> <<>>, result |-> req.result]]
NoRequest == [sent |-> PyNone, n |-> 0, result |-> NoHttp.result]

acquire(atype, attr, config, clock, prompt, outs) ==
    LET c0 == DictSet(EmptyDict, "received", PyInt(clock))
        req == request_token(attr, config, clock, outs)
        token(before) ==
            IF req.result.outcome # "return"
            THEN Acquired(req.result.outcome, before, req.env_config, PyNone, req)
            ELSE LET t == token_credentials(req.result.value, clock)
                 IN  Acquired(t.outcome, t.credentials, req.env_config, PyNone, req)
    IN  CASE atype = "BASIC" ->
               IF prompt = Abort
               THEN Acquired("KeyboardInterrupt", c0, config, prompt, NoRequest)
               ELSE Acquired("ok", basic_credentials(c0, prompt), config, prompt, NoRequest)
          [] atype = "JWT_BEARER" ->
               IF attr = NoAttr
               THEN Acquired("AttributeError", c0, config, PyNone, NoRequest)
               ELSE token(c0)
          [] atype = "OAUTH2" ->
               IF prompt = Abort
               THEN Acquired("KeyboardInterrupt", c0, config, prompt, NoRequest)
               ELSE IF attr = NoAttr
               THEN Acquired("AttributeError", basic_credentials(c0, prompt), config,
                             prompt, NoRequest)
               ELSE [token(basic_credentials(c0, prompt)) EXCEPT !.prompt = prompt]

\* get_valid_credentials, start to end: how it ends, the handler's state
\* afterwards and what it did on the way
GvcResult(outcome, creds, fs, config, trace) ==
    [outcome |-> outcome, credentials |-> creds, files |-> fs, env_config |-> config,
     trace |-> trace]
GvcTrace == [loads |-> 0, loaded |-> PyNone, checked |-> PyNone, acquired |-> 0,
             prompt |-> PyNone, sent |-> PyNone, http |-> NoHttp, wrote |-> FALSE]

get_valid_credentials(atype, attr, config, creds, fs, clock, prompt, outs) ==
    LET load == creds = PyNone
        cached == get_cached_credentials(attr, fs)
        t1 == IF load THEN [GvcTrace EXCEPT !.loads = 1, !.loaded = cached.value]
              ELSE GvcTrace
    IN  IF load /\ cached.outcome # "return"
        THEN GvcResult(cached.outcome, creds, fs, config, t1)
        ELSE
        LET c1 == IF load THEN cached.value ELSE creds
            need == needs_new(c1, clock)
            t2 == [t1 EXCEPT !.checked = c1]
        IN  IF need = "AttributeError"
            THEN GvcResult("AttributeError", c1, fs, config, t2)
            ELSE
            LET a == acquire(atype, attr, config, clock, prompt, outs)
                t3 == IF need = "yes"
                      THEN [t2 EXCEPT !.acquired = 1, !.prompt = a.prompt,
                                      !.sent = a.sent, !.http = a.http]
                      ELSE t2
            IN  IF need = "yes" /\ a.outcome # "ok"
                THEN GvcResult(a.outcome, a.credentials, fs, a.env_config, t3)
                ELSE
                LET c2 == IF need = "yes" THEN a.credentials ELSE c1
                    cfg2 == IF need = "yes" THEN a.env_config ELSE config
                    w == cache_credentials(attr, c2, fs)
                IN  GvcResult(w.outcome, c2, w.files, cfg2,
                              [t3 EXCEPT !.wrote = (w.outcome = "return")])

\* clear_cached_credentials: unlink the cache file, then drop the credential
clear_cached_credentials(attr, creds, fs) ==
    IF attr = NoAttr
    THEN [outcome |-> "AttributeError", credentials |-> creds, files |-> fs]
    ELSE IF ~fs[CredPath(Name, attr)].exists
    THEN [outcome |-> "FileNotFoundError", credentials |-> creds, files |-> fs]
    ELSE [outcome |-> "return", credentials |-> PyNone,
          files |-> [fs EXCEPT ![CredPath(Name, attr)] = NoFile]]

\* the keyword arguments a caller gives a function wrapped by manage_auth
NotGiven == [t |-> "missing", v |-> 0]
CallerKwargs ==
    {[api_url |-> NotGiven, headers |-> NotGiven, params |-> NotGiven],
     [api_url |-> NotGiven, headers |-> PyDict("Accept" :> PyStr(<<"application/json">>)),
      params |-> PyStr(<<"page=2">>)],
     [api_url |-> PyStr(<<"https://caller.example">>),
      headers |-> PyDict("Accept" :> PyStr(<<"application/json">>)
                         @@ "Authorization" :> PyStr(<<"caller-set">>)),
      params |-> PyStr(<<"page=3">>)]}

\* the wrapper with the environment's api_url assigned unconditionally
manage_auth_kwargs_env_url(attr, config, creds, api_url, headers) ==
    LET h == IF headers = NotGiven THEN EmptyDict ELSE headers IN
    [invoked |-> TRUE,
     api_url |-> config[attr].api_url,
     headers |-> DictSet(h, "Authorization", DictGet(creds, "auth_header", PyNone)).v,
     params |-> PyNone]

\* the wrapper's api_url and headers after get_valid_credentials returned
\* creds; its other keyword arguments are passed on as they came
manage_auth_kwargs(attr, config, creds, api_url, headers) ==
    LET h == IF headers = NotGiven THEN EmptyDict ELSE headers IN
    [invoked |-> TRUE,
     api_url |-> IF api_url = NotGiven THEN config[attr].api_url ELSE api_url.v,
     headers |-> DictSet(h, "Authorization", DictGet(creds, "auth_header", PyNone)).v,
     params |-> PyNone]

-----------------------------------------------------------------------------
(* The state machine of one AuthHandler *)

\* AuthHandler(name, auth_type, env_config, env): __init__ runs the env setter
\* and then sets credentials to None.  The cache directory is as an earlier
\* process left it.
Init ==
    /\ auth_type \in AuthTypes
    /\ env_config = InitialEnvConfig
    /\ \E env \in EnvKeys \cup UnknownEnvs :
          /\ env_attr = env_setter(InitialEnvConfig, NoAttr, PyNone, env).env_attr
          /\ ret = [RetBase EXCEPT !.op = "__init__", !.arg = PyStr(<<env>>)]
    /\ credentials = PyNone
    /\ \E contents \in [EnvKeys -> UNION {InitialFileContents(e) : e \in EnvKeys}] :
          /\ \A e \in EnvKeys : contents[e] \in InitialFileContents(e)
          /\ files = [p \in Paths |->
                        contents[CHOOSE e \in EnvKeys : CredPath(Name, e) = p]]
    /\ now = 1
    /\ saved = [e \in EnvKeys |->
                  IF files[CredPath(Name, e)].exists THEN External ELSE Absent]

\* time passes
Tick ==
    /\ now < MaxTime
    /\ now' = now + 1
    /\ UNCHANGED <<auth_type, env_config, env_attr, credentials, files, saved, ret>>

\* handler.env = env, "eliminating the cached credentials" on disk as well
EnvSetterUnlinksCache ==
    \E env \in EnvKeys \cup UnknownEnvs :
        LET s == env_setter(env_config, env_attr, credentials, env) IN
        /\ env_attr' = s.env_attr
        /\ credentials' = s.credentials
        /\ files' = IF env_attr = NoAttr THEN files
                    ELSE [files EXCEPT ![CredPath(Name, env_attr)] = NoFile]
        /\ ret' = [RetBase EXCEPT !.op = "env.setter", !.arg = PyStr(<<env>>),
                                  !.pre = credentials, !.at = now]
        /\ UNCHANGED <<auth_type, env_config, now, saved>>

\* handler.env = env
EnvSetter ==
    \E env \in EnvKeys \cup UnknownEnvs :
        LET s == env_setter(env_config, env_attr, credentials, env) IN
        /\ env_attr' = s.env_attr
        /\ credentials' = s.credentials
        /\ ret' = [RetBase EXCEPT !.op = "env.setter", !.arg = PyStr(<<env>>),
                                  !.pre = credentials, !.at = now]
        /\ UNCHANGED <<auth_type, env_config, files, now, saved>>

\* handler.env
EnvGetter ==
    LET g == env_getter(env_attr) IN
    /\ ret' = [RetBase EXCEPT !.op = "env.getter", !.outcome = g.outcome,
                              !.value = g.value, !.pre = credentials, !.at = now]
    /\ UNCHANGED <<auth_type, env_config, env_attr, credentials, files, now, saved>>

\* what the user and the token endpoint may do during one call: the prompt is
\* only shown by BASIC and OAUTH2, the token request only made by JWT_BEARER
\* and OAUTH2
Inputs(atype) ==
    {[prompt |-> pr, outs |-> outs] :
        pr \in IF atype = "JWT_BEARER" THEN {Abort} ELSE PromptInputs,
        outs \in IF atype = "BASIC" THEN {<<"OK">>}
                 ELSE [1..DefaultAttempts -> Outcomes]}

\* the cache file of the selected environment
CurrentFile == IF env_attr = NoAttr THEN NoFile ELSE files[CredPath(Name, env_attr)]

\* the history record of a get_valid_credentials call
GvcRet(op, g) ==
    [RetBase EXCEPT !.op = op, !.outcome = g.outcome,
                    !.value = IF g.outcome = "return" THEN g.credentials ELSE PyNone,
                    !.at = now, !.pre = credentials, !.pre_file = CurrentFile,
                    !.loads = g.trace.loads, !.loaded = g.trace.loaded,
                    !.load_from = IF g.trace.loads = 1 /\ env_attr # NoAttr
                                  THEN saved[env_attr] ELSE Absent,
                    !.checked = g.trace.checked, !.acquired = g.trace.acquired,
                    !.prompt = g.trace.prompt, !.sent = g.trace.sent,
                    !.http = g.trace.http]

GvcEffect(g) ==
    /\ credentials' = g.credentials
    /\ files' = g.files
    /\ env_config' = g.env_config
    /\ saved' = IF g.trace.wrote THEN [saved EXCEPT ![env_attr] = g.credentials]
                ELSE saved
    /\ UNCHANGED <<auth_type, env_attr, now>>

\* the ways one get_valid_credentials call can go from the current state
GvcResults ==
    {get_valid_credentials(auth_type, env_attr, env_config, credentials, files, now,
                           inp.prompt, inp.outs) : inp \in Inputs(auth_type)}

\* handler.get_valid_credentials()
GetValidCredentials ==
    \E g \in GvcResults :
        /\ GvcEffect(g)
        /\ ret' = GvcRet("get_valid_credentials", g)

\* a call of a function decorated with handler.manage_auth
ManageAuth ==
    \E g \in GvcResults, kw \in CallerKwargs :
        /\ GvcEffect(g)
        /\ ret' = [GvcRet("manage_auth", g) EXCEPT
                     !.arg = PyDict("api_url" :> kw.api_url @@ "headers" :> kw.headers
                                    @@ "params" :> kw.params),
                     !.call = IF g.outcome = "return"
                              THEN [manage_auth_kwargs(env_attr, g.env_config,
                                        g.credentials, kw.api_url, kw.headers)
                                    EXCEPT !.params = kw.params]
                              ELSE NoCall]

\* handler.clear_cached_credentials()
ClearCachedCredentials ==
    LET c == clear_cached_credentials(env_attr, credentials, files) IN
    /\ credentials' = c.credentials
    /\ files' = c.files
    /\ saved' = IF c.outcome = "return" THEN [saved EXCEPT ![env_attr] = Absent]
                ELSE saved
    /\ ret' = [RetBase EXCEPT !.op = "clear_cached_credentials",
                              !.outcome = c.outcome, !.pre = credentials,
                              !.pre_file = CurrentFile, !.at = now]
    /\ UNCHANGED <<auth_type, env_config, env_attr, now>>

Next ==
    \/ Tick
    \/ EnvSetter
    \/ EnvGetter
    \/ GetValidCredentials
    \/ ManageAuth
    \/ ClearCachedCredentials

Spec == Init /\ [][Next]_vars

-----------------------------------------------------------------------------
(* send_http_call on its own: every http_attempts and every run of outcomes *)

HttpInit ==
    /\ auth_type = "BASIC"
    /\ env_config = InitialEnvConfig
    /\ env_attr = "prod"
    /\ credentials = PyNone
    /\ files = [p \in Paths |-> NoFile]
    /\ now = 1
    /\ saved = [e \in EnvKeys |-> Absent]
    /\ ret = [RetBase EXCEPT !.op = "import"]

SendHttpCall ==
    \E n \in 0..MaxAttempts :
        \E outs \in [1..n -> Outcomes] :
            /\ ret' = [RetBase EXCEPT !.op = "send_http_call",
                          !.http = [n |-> n, outs |-> outs,
                                    result |-> send_http_call(n, outs)]]
            /\ UNCHANGED <<auth_type, env_config, env_attr, credentials, files, now, saved>>

HttpNext == SendHttpCall

HttpSpec == HttpInit /\ [][HttpNext]_vars

-----------------------------------------------------------------------------
(* Properties *)

GvcOps == {"get_valid_credentials", "manage_auth"}
HasKey(d, k) == d.t = "dict" /\ k \in DOMAIN d.v
Retryable == {"ConnectTimeout", "ReadTimeout", "HTTPError"}

\* the credential's expiry is present and not later than the clock reading t
Expired(c, t) == HasKey(c, "expiry") /\ c.v["expiry"].v <= t

\* C1: a credential, in memory or loaded from the cache, whose expiry is present
\* and <= now (0 included) makes get_valid_credentials start a new acquisition,
\* and the stale credential is not what the call returns.
C1_StaleCredentialReacquired ==
    (ret.op \in GvcOps /\ Expired(ret.checked, ret.at))
        => /\ ret.acquired = 1
           /\ ret.outcome = "return" => ret.value # ret.checked

\* C1 with expiry 0 left out: every credential with a non-zero expiry <= now is
\* reacquired (what the code does guarantee).
C1_NonZeroExpiryReacquired ==
    (ret.op \in GvcOps /\ Expired(ret.checked, ret.at) /\ ret.checked.v["expiry"].v # 0)
        => /\ ret.acquired = 1
           /\ ret.outcome = "return" => ret.value # ret.checked

\* C2: whatever get_valid_credentials returns and writes to the cache, and
\* whatever manage_auth puts in the Authorization header, is the complete
\* result of an acquisition, a record with an auth_header, also after an
\* earlier call failed part-way.  (That it is unexpired as well is C1.)
C2_OnlyCompleteCredentialsUsed ==
    (ret.op \in GvcOps /\ ret.outcome = "return")
        => /\ HasKey(ret.value, "auth_header")
           /\ HasKey(json_loads(CurrentFile.text).val, "auth_header")
           /\ ret.call.invoked => ret.call.headers["Authorization"] # PyNone

\* C3: right after any assignment to env (known or unknown name, from any
\* credential state) the in-memory credential is None.
C3_EnvAssignmentClearsCredential ==
    ret.op = "env.setter" => credentials = PyNone

\* a valid credential was in memory, an unknown name was assigned, and the
\* credential is gone
C3_Witness ==
    /\ ret.op = "env.setter"
    /\ ret.arg.v[1] \in UnknownEnvs
    /\ HasKey(ret.pre, "auth_header")
    /\ credentials = PyNone

\* C4: after construction and any env assignments, reading env succeeds and
\* gives a key of env_config.
C4_EnvReadable ==
    ret.op = "env.getter" => ret.outcome = "return" /\ ret.value.v[1] \in EnvKeys

\* C5: when each of the http_attempts (>= 1) attempts ends in a retryable
\* failure, send_http_call raises RetriesExhausted instead of returning.
C5_ExhaustedRaises ==
    (/\ ret.op = "send_http_call"
     /\ ret.http.n >= 1
     /\ \A i \in 1..ret.http.n : ret.http.outs[i] \in Retryable)
        => ret.http.result.outcome = "RetriesExhausted"

\* C6: k < http_attempts retryable failures followed by a 2xx response make
\* send_http_call return that response, after exactly k + 1 attempts.
C6_SuccessAfterRetries ==
    ret.op = "send_http_call" =>
        \A k \in 0..(ret.http.n - 1) :
            (/\ \A i \in 1..k : ret.http.outs[i] \in Retryable
             /\ ret.http.outs[k + 1] = "OK")
                => /\ ret.http.result.outcome = "return"
                   /\ ret.http.result.value = Response(k, TRUE)
                   /\ ret.http.result.attempts = k + 1

\* two connect timeouts, then a success on the third of three attempts
C6_Witness ==
    /\ ret.op = "send_http_call"
    /\ ret.http.n = 3
    /\ ret.http.outs = <<"ConnectTimeout", "ConnectTimeout", "OK">>
    /\ ret.http.result = [outcome |-> "return", value |-> Response(2, TRUE), attempts |-> 3]

\* C7: an attempt (the first included) that fails with another transport error
\* ends send_http_call at once with the descriptive RequestException.
C7_TransportErrorIsDescribed ==
    ret.op = "send_http_call" =>
        \A k \in 0..(ret.http.n - 1) :
            (/\ \A i \in 1..k : ret.http.outs[i] \in Retryable
             /\ ret.http.outs[k + 1] = "RequestException")
                => /\ ret.http.result.outcome = "RequestException"
                   /\ ret.http.result.attempts = k + 1

\* C8: a cache file that cannot be parsed counts as a cache miss: the call
\* raises no decoding error, starts an acquisition, and returns the new
\* credential when the user supplies one.
C8_CorruptCacheIsMiss ==
    (/\ ret.op \in GvcOps
     /\ ret.loads = 1
     /\ ret.pre_file.exists
     /\ ~json_loads(ret.pre_file.text).ok)
        => /\ ret.outcome # "JSONDecodeError"
           /\ ret.acquired = 1
           /\ (auth_type = "BASIC" /\ ret.prompt # Abort)
                 => ret.outcome = "return" /\ ret.value.v["received"].v = ret.at

\* C9: clear_cached_credentials, whether the cache file is there or not, ends
\* without error with the file absent and the in-memory credential None.
C9_ClearIsIdempotent ==
    (ret.op = "clear_cached_credentials" /\ env_attr # NoAttr)
        => /\ ret.outcome = "return"
           /\ ~files[CredPath(Name, env_attr)].exists
           /\ credentials = PyNone

\* C10: a load returns the record this handler last saved for the same
\* environment, and nothing when that environment's file was never written or
\* was cleared, whatever was saved for the other environment.
C10_SaveLoadRoundTrip ==
    (ret.op \in GvcOps /\ ret.loads = 1 /\ env_attr # NoAttr)
        => /\ ret.load_from.t = "dict"
                => ret.outcome # "JSONDecodeError" /\ ret.loaded = ret.load_from
           /\ ret.load_from = Absent
                => ret.outcome # "JSONDecodeError" /\ ret.loaded = PyNone

\* a record saved for the environment came back from the file, while the other
\* environment holds a different record
C10_Witness ==
    /\ ret.op = "get_valid_credentials"
    /\ ret.loads = 1
    /\ ret.load_from.t = "dict"
    /\ ret.loaded = ret.load_from
    /\ \E e \in EnvKeys : saved[e].t = "dict" /\ saved[e] # ret.loaded

\* C11: the wrapped function is called with the caller's api_url when one was
\* passed and the selected environment's api_url otherwise, with Authorization
\* set to the auth_header of the credential get_valid_credentials returned, and
\* with the caller's other headers and arguments as they were.
C11_ManageAuthCall ==
    (ret.op = "manage_auth" /\ ret.call.invoked) =>
        LET kwargs == ret.arg.v
            given == IF kwargs["headers"] = NotGiven THEN <<>> ELSE kwargs["headers"].v
        IN  /\ ret.call.api_url = IF kwargs["api_url"] = NotGiven
                                  THEN InitialEnvConfig[env_attr].api_url
                                  ELSE kwargs["api_url"].v
            /\ ret.call.headers["Authorization"] = DictGet(ret.value, "auth_header", PyNone)
            /\ DOMAIN ret.call.headers = DOMAIN given \cup {"Authorization"}
            /\ \A h \in DOMAIN given \ {"Authorization"} : ret.call.headers[h] = given[h]
            /\ ret.call.params = kwargs["params"]

\* a call whose caller passed its own api_url, another header and its own
\* Authorization: the credential's auth_header replaced only the latter
C11_Witness ==
    /\ ret.op = "manage_auth"
    /\ ret.call.invoked
    /\ ret.arg.v["api_url"] # NotGiven
    /\ ret.call.api_url = <<"https://caller.example">>
    /\ ret.call.headers["Accept"] = PyStr(<<"application/json">>)
    /\ HasKey(ret.value, "auth_header")
    /\ ret.call.headers["Authorization"] = ret.value.v["auth_header"]

\* a credential as the BASIC strategy builds it
IsBasicCredential(c) == HasKey(c, "username") /\ HasKey(c, "auth_header")

\* C12: a credential acquired under BASIC has no expiry; while the handler
\* holds it, every get_valid_credentials call, at whatever time, returns that
\* same credential without prompting, and only an assignment to env or
\* clear_cached_credentials takes it away.
C12_BasicCredentialKept ==
    [][(auth_type = "BASIC" /\ IsBasicCredential(credentials)) =>
          /\ ~HasKey(credentials, "expiry")
          /\ credentials' # credentials =>
                 ret'.op \in {"env.setter", "clear_cached_credentials"}
          /\ (ret'.op \in GvcOps /\ now' = now) =>
                 /\ ret'.outcome = "return"
                 /\ ret'.value = credentials
                 /\ ret'.acquired = 0
                 /\ ret'.prompt = PyNone]_vars

\* a call that returned, unprompted, the credential the handler had acquired
\* at an earlier time
C12_Witness ==
    /\ ret.op \in GvcOps
    /\ auth_type = "BASIC"
    /\ IsBasicCredential(ret.pre)
    /\ ret.pre.v["received"].v < ret.at
    /\ ret.pre.v["received"].v > 0
    /\ ret.outcome = "return"
    /\ ret.value = ret.pre
    /\ ret.acquired = 0

\* the JSON body a token endpoint sends with its 2xx answer, which the
\* acquisition of lines 217-219 looks up by key
token_body(response) ==
    PyDict("access_token" :> PyStr(<<"tok">>) @@ "expires_in" :> PyInt(120))

\* C13: a JWT_BEARER acquisition at time `now` whose token request succeeded
\* with body {access_token: t, expires_in: e} returns a credential whose
\* auth_header is "Bearer " followed by t and whose expiry is now + e
\* (e = 3600 when the body has no expires_in).
C13_JwtCredentialFromResponse ==
    (/\ ret.op \in GvcOps
     /\ auth_type = "JWT_BEARER"
     /\ ret.acquired = 1
     /\ ret.http.result.outcome = "return"
     /\ ret.http.result.value.t = "Response") =>
        LET body == token_body(ret.http.result.value) IN
        /\ ret.outcome = "return"
        /\ HasKey(ret.value, "auth_header")
        /\ ret.value.v["auth_header"] = PyStr(<<"Bearer ">> \o body.v["access_token"].v)
        /\ HasKey(ret.value, "expiry")
        /\ ret.value.v["expiry"] = PyInt(ret.at + DictGet(body, "expires_in", PyInt(3600)).v)

\* C14: a token request, the handler's first or a later one, carries for each
\* token_params entry configured as a resolver the value the resolver gives at
\* that request, and env_config holds the resolver itself afterwards.
C14_ResolverReevaluated ==
    (/\ ret.op \in GvcOps
     /\ ret.http.n > 0
     /\ InitialEnvConfig[env_attr].token_params.data.signature = Resolver)
        => /\ ret.sent = ResolverValue(ret.at)
           /\ env_config[env_attr].token_params.data.signature = Resolver

\* the first half of C14 on its own: the value sent is the resolver's value at
\* the time of the request
C14_SentValueIsFresh ==
    (/\ ret.op \in GvcOps
     /\ ret.http.n > 0
     /\ InitialEnvConfig[env_attr].token_params.data.signature = Resolver)
        => ret.sent = ResolverValue(ret.at)

\* C15: a get_valid_credentials call loads the cache at most once, and only
\* when it was called with no credential in memory; it then makes exactly one
\* acquisition if the credential is still absent or is expired (expiry <= now)
\* and none otherwise; and when it returns, the cache file of (name, env) holds
\* the credential it returns.  Stated for the calls whose cache load came back.
C15_LoadAcquireSave ==
    (ret.op \in GvcOps /\ env_attr # NoAttr /\ ret.outcome # "JSONDecodeError")
        => /\ ret.loads <= 1
           /\ ret.loads = 1 => ret.pre = PyNone
           /\ ret.acquired = IF ret.checked = PyNone \/ Expired(ret.checked, ret.at)
                             THEN 1 ELSE 0
           /\ ret.outcome = "return"
                 => /\ CurrentFile.exists
                    /\ json_loads(CurrentFile.text).ok
                    /\ json_loads(CurrentFile.text).val = ret.value

\* C15 with the credentials whose expiry is 0 left out
C15_ExceptZeroExpiry ==
    (/\ ret.op \in GvcOps /\ env_attr # NoAttr /\ ret.outcome # "JSONDecodeError"
     /\ ~(HasKey(ret.checked, "expiry") /\ ret.checked.v["expiry"].v = 0))
        => /\ ret.loads <= 1
           /\ ret.loads = 1 => ret.pre = PyNone
           /\ ret.acquired = IF ret.checked = PyNone \/ Expired(ret.checked, ret.at)
                             THEN 1 ELSE 0
           /\ ret.outcome = "return"
                 => /\ CurrentFile.exists
                    /\ json_loads(CurrentFile.text).ok
                    /\ json_loads(CurrentFile.text).val = ret.value

\* C16: an assignment to env, to a known or an unknown name, leaves every
\* cache file on disk as it was: none created, changed or removed.
C16_EnvAssignmentKeepsFiles ==
    [][ret'.op = "env.setter" => files' = files]_vars

\* env was assigned while the handler held a credential it had cached: the
\* cache file it wrote is still there with that credential in it
C16_Witness ==
    /\ ret.op = "env.setter"
    /\ HasKey(ret.pre, "auth_header")
    /\ credentials = PyNone
    /\ \E e \in EnvKeys :
          /\ saved[e] = ret.pre
          /\ files[CredPath(Name, e)].exists
          /\ json_loads(files[CredPath(Name, e)].text).val = ret.pre

\* the ways a send_http_call can end: by returning or by raising
Ended == {"return", "RequestException", "UnboundLocalError"}

\* C17: for every http_attempts >= 0 and every run of attempt outcomes,
\* send_http_call ends, by returning or raising, after at most http_attempts
\* attempts, and makes no attempt after the first one that succeeded or failed
\* with a transport error that is not retried.
C17_AttemptsBounded ==
    ret.op = "send_http_call" =>
        /\ ret.http.result.outcome \in Ended
        /\ ret.http.result.attempts \in 0..ret.http.n
        /\ \A k \in 1..ret.http.n :
              ret.http.outs[k] \notin Retryable => ret.http.result.attempts <= k

\* three attempts allowed: an HTTP error status, then a success, which ends
\* the call with the third attempt never made
C17_Witness ==
    /\ ret.op = "send_http_call"
    /\ ret.http.n = 3
    /\ ret.http.outs[1] = "HTTPError"
    /\ ret.http.outs[2] = "OK"
    /\ ret.http.result.outcome = "return"
    /\ ret.http.result.attempts = 2

====
